---- MODULE Spec2Model ----
(***************************************************************************)
(* Model of the TikTok video pipeline of AutomatedTikToks:                 *)
(*   create_qna_tiktok.py / create_advice_tiktok.py  (the batch loop)      *)
(*   lib/generate_video.py  VideoGenerator           (one video)           *)
(*                                                                         *)
(* Times are exact multiples of a tenth of a second ("ticks"): .8 s is 8,  *)
(* 3 s is 30.  max_vid_length and subclip_length stay in whole seconds, as *)
(* argparse delivers them (type=int), and are converted where the code     *)
(* mixes them with clip durations.  Floating-point rounding is not         *)
(* modelled.                                                               *)
(*                                                                         *)
(* A file name is a sequence of tokens: characters, and an extension as    *)
(* its last token, so that str.strip() and str.endswith() are computed.    *)
(***************************************************************************)
EXTENDS Integers, Sequences, FiniteSets, TLC

VARIABLES
    type,                 \* which script runs: "qna" or "advice"
    max_vid_length,       \* args.max_vid_length, whole seconds
    qna_contents,         \* the posts of the reddit json; a post is given by
                          \* the durations its narration will have
    dir_files,            \* files of the background folder (marker excluded)
    last_used,            \* content of last_used.txt, or NoFile
    pc,                   \* position of the script
    i,                    \* index of the for loop
    audio_info,           \* result of generate_audio_from_*_submission
    background_video,     \* result of pick_random_video
    source_duration,      \* video.duration of the loaded background
    random_point,         \* start of the subclip
    subclip_end,          \* end of the subclip
    video_duration,       \* duration of the clip being edited
    title_clip,           \* the title overlay
    title_offset,         \* second value returned by write_title_to_video
    text_clips,           \* the overlays appended by write_multi_text_to_video
    current_text_offset,  \* the cursor of write_multi_text_to_video
    end_msg,              \* the closing overlay of add_ending_message
    err,                  \* the exception in flight or handled
    printed,              \* what the script printed
    attempted,            \* indices of the posts the loop body started on
    written,              \* video files written by this run
    returned,             \* the last two results of pick_random_video
    planned,              \* the first timeline made for each input, with
                          \* the inputs and the random start of its subclip
    runs,                 \* two processes inside pick_random_video at the
                          \* same time: position and locals of each
    overlapped            \* whether one process read the marker between the
                          \* read and the write of the other

vars == <<type, max_vid_length, qna_contents, dir_files, last_used, pc, i,
          audio_info, background_video, source_duration, random_point,
          video_duration, title_clip, title_offset, text_clips,
          current_text_offset, end_msg, err, printed, attempted, written,
          returned, subclip_end, planned, runs, overlapped>>

\* the per-video locals of VideoGenerator.generate_video_from_*_submission
locals == <<audio_info, background_video, source_duration, random_point,
            video_duration, title_clip, title_offset, text_clips,
            current_text_offset, end_msg, subclip_end>>

args == <<type, max_vid_length>>

\* the state of the concurrent calls of pick_random_video
race == <<runs, overlapped>>

--------------------------------------------------------------------------
(* Bounds and input sets *)

MaxPosts == 2
MaxSegs == 3

None == "None"
NoFile == <<"ENOENT">>
NoErr == [type |-> "None", at |-> "None"]

Types == {"qna", "advice"}
MaxLengths == {20, 30}
TitleDurations == {30, 50, 192, 250}
SegDurations == {40, 60, 100, 500}
SourceDurations == {95, 309, 655}

VidA == <<"a", ".mp4">>
VidSpA == <<" ", "a", ".mp4">>
VidB == <<"b", ".mp4">>
Notes == <<"notes", ".txt">>

Catalogs == {{}, {Notes}, {VidA}, {VidSpA, Notes}, {VidA, VidB},
             {VidSpA, VidB, Notes}, {VidA, VidSpA, VidB}}
Markers == {NoFile, VidA, VidB}

SeqsUpTo(S, n) == UNION {[1..k -> S] : k \in 0..n}

Posts == [title : TitleDurations, texts : SeqsUpTo(SegDurations, MaxSegs)]
BatchPosts == {[title |-> 30, texts |-> <<40, 60, 500>>],
               [title |-> 250, texts |-> <<100>>]}

--------------------------------------------------------------------------
(* Units *)

Ticks(seconds) == seconds * 10
\* int(x) of a non-negative float given in ticks
IntSeconds(ticks) == ticks \div 10

Min(a, b) == IF a <= b THEN a ELSE b

--------------------------------------------------------------------------
(* Program constants *)

title_buffer == 8
qna_time_offset == 5
advice_time_offset == 1
end_msg_min == 30

last_used_vid_filename == <<"last_used", ".txt">>

time_offset(t) == IF t = "qna" THEN qna_time_offset ELSE advice_time_offset


--------------------------------------------------------------------------
(* Strings *)

Whitespace == {" "}

RECURSIVE LStrip(_)
LStrip(s) ==
    IF s # <<>> /\ Head(s) \in Whitespace THEN LStrip(Tail(s)) ELSE s

RECURSIVE RStrip(_)
RStrip(s) ==
    IF s # <<>> /\ s[Len(s)] \in Whitespace
    THEN RStrip(SubSeq(s, 1, Len(s) - 1))
    ELSE s

\* str.strip()
Strip(s) == RStrip(LStrip(s))

\* str.endswith(suffix), for a suffix that is one token
EndsWith(s, suffix) == s # <<>> /\ s[Len(s)] = suffix

--------------------------------------------------------------------------
(* VideoGenerator.pick_random_video *)

\* listdir(self.vid_path): the marker file lives in the same folder
listdir(files, marker) ==
    files \cup (IF marker = NoFile THEN {} ELSE {last_used_vid_filename})

\* mutant: every entry of the folder counts as a video
VideoFilesUnfiltered(files, marker) == listdir(files, marker)

\* the .mp4 entries of the folder
VideoFiles(files, marker) ==
    {maybe_vid \in listdir(files, marker) : EndsWith(maybe_vid, ".mp4")}

\* the filter applied when the marker file can be read
NotLastUsed(video_files, marker) ==
    LET last_video_file_used == Strip(marker)
    IN  {vid \in video_files : vid # last_video_file_used}

\* the list choice() draws from
Candidates(files, marker) ==
    IF marker = NoFile
    THEN VideoFiles(files, marker)
    ELSE NotLastUsed(VideoFiles(files, marker), marker)

\* mutant: the chosen name is never written to the marker file
MarkerNotWritten(marker, chosen_video) == marker

\* the content of the marker file after txt_file.write(chosen_video)
MarkerAfter(marker, chosen_video) == chosen_video

\* what one call can do: raise, or return one of the candidates
PickOutcomes(files, marker) ==
    IF VideoFiles(files, marker) = {}
    THEN {[error |-> "ValueError", chosen_video |-> <<>>]}
    ELSE IF Candidates(files, marker) = {}
    THEN {[error |-> "IndexError", chosen_video |-> <<>>]}
    ELSE {[error |-> "None", chosen_video |-> v] : v \in Candidates(files, marker)}

--------------------------------------------------------------------------
(* VideoGenerator.crop_video_to_tiktok_format *)

\* the values random.randrange(start, stop, step) can return, step > 0;
\* empty when it raises ValueError
RandRange(start, stop, step) ==
    LET n == (stop - start + step - 1) \div step
    IN  {start + k * step : k \in 0..(n - 1)}

\* mutant: the stop of the range forgets the length of the subclip
RandomPointsAnywhere(duration, subclip_length) ==
    RandRange(0, IntSeconds(duration), subclip_length)

\* the start points of the subclip, in whole seconds
RandomPoints(duration, subclip_length) ==
    RandRange(0, IntSeconds(duration) - subclip_length, subclip_length)

\* video.subclip(random_point, random_point + subclip_length)
Subclip(point, subclip_length) ==
    [start |-> point, end |-> point + subclip_length]

CropOutcomes(duration, subclip_length) ==
    IF RandomPoints(duration, subclip_length) = {}
    THEN {[error |-> "ValueError", random_point |-> -1]}
    ELSE {[error |-> "None", random_point |-> p] :
            p \in RandomPoints(duration, subclip_length)}

--------------------------------------------------------------------------
(* VideoGenerator.write_title_to_video *)

\* mutant: the returned offset forgets the buffer after the title
TitleOffsetNoBuffer(title_duration) == title_duration

TitleOffset(title_duration) == title_duration + title_buffer

TitleClip(title_duration) ==
    [start |-> 0, duration |-> title_duration + title_buffer,
     audio |-> title_duration]

--------------------------------------------------------------------------
(* VideoGenerator.write_multi_text_to_video and add_ending_message *)

\* mutant: the check forgets the duration of the text
AdmitsIgnoringDuration(offset, text_duration, max_length) ==
    offset <= max_length

\* mutant: the budget check rejects a text ending exactly at max_length
AdmitsStrict(offset, text_duration, max_length) ==
    offset + text_duration < max_length

\* mutant: the check is made against what is left of the source video after
\* the random start of the subclip
AdmitsWithinSource(offset, text_duration, max_length) ==
    offset + text_duration <= source_duration - Ticks(random_point)

\* the budget check of the loop; max_length in ticks
Admits(offset, text_duration, max_length) ==
    offset + text_duration <= max_length

\* mutant: the cursor forgets the wait between texts
NextOffsetNoGap(offset, text_duration, gap) == offset + text_duration

\* the cursor after an admitted text
NextOffset(offset, text_duration, gap) == offset + text_duration + gap

TextClip(k, offset, text_duration) ==
    [index |-> k, start |-> offset, duration |-> text_duration,
     audio |-> text_duration]

\* the for loop over texts_list, from its k-th element on
RECURSIVE TextLoop(_, _, _, _, _, _)
TextLoop(texts_list, k, offset, clips, max_length, gap) ==
    IF k > Len(texts_list)
    THEN [text_clips |-> clips, current_text_offset |-> offset]
    ELSE LET text_duration == texts_list[k]
         IN  IF Admits(offset, text_duration, max_length)
             THEN TextLoop(texts_list, k + 1,
                           NextOffset(offset, text_duration, gap),
                           Append(clips, TextClip(k, offset, text_duration)),
                           max_length, gap)
             ELSE TextLoop(texts_list, k + 1, offset, clips, max_length, gap)

\* mutant: the ending message always gets its 3 seconds
EndMsgAlwaysMin(duration, lst_msg_timestamp) == end_msg_min

\* mutant: the ending message always runs to the end of the background
EndMsgFillsToMax(duration, lst_msg_timestamp) == duration - lst_msg_timestamp

\* end_msg_duration of add_ending_message
EndMsgDuration(duration, lst_msg_timestamp) ==
    Min(duration - lst_msg_timestamp, end_msg_min)

\* the closing overlay and the duration the composite is set to
EndingMessage(duration, lst_msg_timestamp) ==
    [start |-> lst_msg_timestamp,
     duration |-> EndMsgDuration(duration, lst_msg_timestamp),
     video_duration |->
         lst_msg_timestamp + EndMsgDuration(duration, lst_msg_timestamp)]

\* CompositeVideoClip([...]).set_duration(total): the time a layer placed at
\* `start` that has no duration of its own (the ending message) is on
\* screen; nothing of it when it starts after the end of the composite
EndMsgOnScreen(start, total) == IF total > start THEN total - start ELSE 0

--------------------------------------------------------------------------
(* Output naming *)

make_filename(t) == <<"finalized_", t, ".mp4">>

\* mutant: the folder name forgets the index of the post
OutputFolderNoIndex(t, idx) == <<t, "_", "now", "_">>

\* join(args.output_folder, f'<type>_<date>_<time>_<i>'); the date and
\* time are those of the start of the run
OutputFolder(t, idx) == <<t, "_", "now", "_", idx>>

\* mutant: the video goes to the folder of the next post
OutputFilepathOfNext(t, idx) == <<OutputFolder(t, idx + 1), make_filename(t)>>

\* join(output_folder, self.make_filename(type))
OutputFilepath(t, idx) == <<OutputFolder(t, idx), make_filename(t)>>

--------------------------------------------------------------------------
(* The state after construction *)

NoLocals ==
    /\ audio_info = None
    /\ background_video = None
    /\ source_duration = None
    /\ random_point = None
    /\ subclip_end = None
    /\ video_duration = None
    /\ title_clip = None
    /\ title_offset = None
    /\ text_clips = None
    /\ current_text_offset = None
    /\ end_msg = None

\* a process that has just been started
ProcessStart ==
    /\ pc = "start"
    /\ i = 0
    /\ NoLocals
    /\ err = NoErr
    /\ printed = <<>>
    /\ attempted = {}
    /\ written = {}

\* the processes of the concurrent calls
Runs == {1, 2}

\* a process at position at, with the locals of pick_random_video
Run(at, video_files, chosen_video, error) ==
    [pc |-> at, video_files |-> video_files, chosen_video |-> chosen_video,
     error |-> error]

\* no concurrent call is made
NoRace ==
    /\ runs = [p \in Runs |-> Run("None", {}, <<>>, "None")]
    /\ overlapped = FALSE

\* a batch of posts over any background folder
Init ==
    /\ type \in Types
    /\ max_vid_length \in MaxLengths
    /\ qna_contents \in SeqsUpTo(BatchPosts, MaxPosts)
    /\ dir_files \in Catalogs
    /\ last_used \in Markers
    /\ returned = <<>>
    /\ planned = {}
    /\ ProcessStart
    /\ NoRace

\* one post of any content over a folder of one background, first run
InitPlan ==
    /\ type \in Types
    /\ max_vid_length \in MaxLengths
    /\ qna_contents \in {<<p>> : p \in Posts}
    /\ dir_files = {VidA, Notes}
    /\ last_used = NoFile
    /\ returned = <<>>
    /\ planned = {}
    /\ ProcessStart
    /\ NoRace

--------------------------------------------------------------------------
(* The scripts: generate_qna_tiktok_video / generate_advice_tiktok_video *)

\* what write_multi_text_to_video is called with, the title included
PlanInputs ==
    [title |-> audio_info.title, title_buffer |-> title_buffer,
     texts |-> audio_info.texts, max_vid_length |-> max_vid_length,
     time_offset |-> time_offset(type)]

\* the timeline write_multi_text_to_video returns
Plan(clips, closing_start, closing_duration, total) ==
    [text_clips |-> clips, closing_start |-> closing_start,
     closing_duration |-> closing_duration, video_duration |-> total]

\* where the for loop goes with index k
LoopAt(k) == IF k < Len(qna_contents) THEN "audio" ELSE "done"

\* an exception leaves the try block
Raise(error, at) ==
    /\ pc' = "except"
    /\ err' = [type |-> error, at |-> at]

\* open and json.load of args.reddit_json
LoadJson ==
    /\ pc = "start"
    /\ \E ok \in BOOLEAN :
          IF ok THEN pc' = LoopAt(0) /\ err' = err
                ELSE Raise("IOError", "open")
    /\ UNCHANGED <<race, args, qna_contents, dir_files, last_used, i, locals,
                   printed, attempted, written, returned, planned>>

\* audio_gen.generate_audio_from_*_submission(output_folder, post)
GenerateAudio ==
    /\ pc = "audio"
    /\ attempted' = attempted \cup {i}
    /\ \E ok \in BOOLEAN :
          IF ok
          THEN /\ audio_info' = qna_contents[i + 1]
               /\ pc' = "pick"
               /\ err' = err
          ELSE /\ audio_info' = None
               /\ Raise("gTTSError", "generate_audio")
    /\ background_video' = None
    /\ source_duration' = None
    /\ random_point' = None
    /\ subclip_end' = None
    /\ video_duration' = None
    /\ title_clip' = None
    /\ title_offset' = None
    /\ text_clips' = None
    /\ current_text_offset' = None
    /\ end_msg' = None
    /\ UNCHANGED <<race, args, qna_contents, dir_files, last_used, i, printed,
                   written, returned, planned>>

\* VideoGenerator.pick_random_video
pick_random_video ==
    /\ pc = "pick"
    /\ \E r \in PickOutcomes(dir_files, last_used) :
          IF r.error = "None"
          THEN /\ last_used' = MarkerAfter(last_used, r.chosen_video)
               /\ background_video' = r.chosen_video
               /\ returned' = IF returned = <<>>
                              THEN <<r.chosen_video>>
                              ELSE <<returned[Len(returned)], r.chosen_video>>
               /\ pc' = "crop"
               /\ err' = err
          ELSE /\ UNCHANGED <<last_used, background_video, returned>>
               /\ Raise(r.error, "pick_random_video")
    /\ UNCHANGED <<race, args, qna_contents, dir_files, i, audio_info,
                   source_duration, random_point, video_duration, title_clip,
                   title_offset, text_clips, current_text_offset, end_msg,
                   printed, attempted, written, subclip_end, planned>>

\* VideoGenerator.crop_video_to_tiktok_format
crop_video_to_tiktok_format ==
    /\ pc = "crop"
    /\ \E duration \in SourceDurations :
       \E r \in CropOutcomes(duration, max_vid_length) :
          /\ source_duration' = duration
          /\ IF r.error = "None"
             THEN LET subclip == Subclip(r.random_point, max_vid_length)
                  IN  /\ random_point' = subclip.start
                      /\ subclip_end' = subclip.end
                      /\ video_duration' = Ticks(subclip.end - subclip.start)
                      /\ pc' = "title"
                      /\ err' = err
             ELSE /\ UNCHANGED <<random_point, subclip_end, video_duration>>
                  /\ Raise(r.error, "crop_video_to_tiktok_format")
    /\ UNCHANGED <<race, args, qna_contents, dir_files, last_used, i, audio_info,
                   background_video, title_clip, title_offset, text_clips,
                   current_text_offset, end_msg, printed, attempted, written,
                   returned, planned>>

\* VideoGenerator.write_title_to_video
write_title_to_video ==
    /\ pc = "title"
    /\ \E ok \in BOOLEAN :
          IF ok
          THEN /\ title_clip' = TitleClip(audio_info.title)
               /\ title_offset' = TitleOffset(audio_info.title)
               /\ pc' = "multi"
               /\ err' = err
          ELSE /\ UNCHANGED <<title_clip, title_offset>>
               /\ Raise("OSError", "write_title_to_video")
    /\ UNCHANGED <<race, args, qna_contents, dir_files, last_used, i, audio_info,
                   background_video, source_duration, random_point,
                   video_duration, text_clips, current_text_offset, end_msg,
                   printed, attempted, written, returned, subclip_end,
                   planned>>

\* VideoGenerator.write_multi_text_to_video, add_ending_message included
write_multi_text_to_video ==
    /\ pc = "multi"
    /\ \E ok \in BOOLEAN :
          IF ok
          THEN LET loop == TextLoop(audio_info.texts, 1, title_offset, <<>>,
                                    Ticks(max_vid_length), time_offset(type))
                   ending == EndingMessage(video_duration,
                                           loop.current_text_offset)
               IN  /\ text_clips' = loop.text_clips
                   /\ current_text_offset' = loop.current_text_offset
                   /\ end_msg' = [start |-> ending.start,
                                  duration |-> ending.duration]
                   /\ video_duration' = ending.video_duration
                   /\ planned' =
                         IF \E p \in planned : p.inputs = PlanInputs
                         THEN planned
                         ELSE planned \cup
                              {[inputs |-> PlanInputs,
                                random_point |-> random_point,
                                plan |-> Plan(loop.text_clips, ending.start,
                                              ending.duration,
                                              ending.video_duration)]}
                   /\ pc' = "write"
                   /\ err' = err
          ELSE /\ UNCHANGED <<text_clips, current_text_offset, end_msg,
                              video_duration, planned>>
               /\ Raise("OSError", "write_multi_text_to_video")
    /\ UNCHANGED <<race, args, qna_contents, dir_files, last_used, i, audio_info,
                   background_video, source_duration, random_point,
                   title_clip, title_offset, printed, attempted, written,
                   returned, subclip_end>>

\* VideoGenerator.write_tiktok_video_to_file, then the script's print
write_tiktok_video_to_file ==
    /\ pc = "write"
    /\ \E ok \in BOOLEAN :
          IF ok
          THEN /\ written' = written \cup {OutputFilepath(type, i)}
               /\ printed' = Append(printed, <<"Successfully Generated", i + 1>>)
               /\ i' = i + 1
               /\ pc' = LoopAt(i + 1)
               /\ err' = err
          ELSE /\ UNCHANGED <<written, printed, i>>
               /\ Raise("IOError", "write_tiktok_video_to_file")
    /\ UNCHANGED <<race, args, qna_contents, dir_files, last_used, locals,
                   attempted, returned, planned>>

\* except Exception as err: the prints, then the function returns
HandleException ==
    /\ pc = "except"
    /\ printed' = Append(printed, <<"Exception was raised", err.type>>)
    /\ pc' = "done"
    /\ UNCHANGED <<race, args, qna_contents, dir_files, last_used, i, locals, err,
                   attempted, written, returned, planned>>

\* the script is run again on the same json and folders
Rerun ==
    /\ pc = "done"
    /\ pc' = "start"
    /\ i' = 0
    /\ audio_info' = None
    /\ background_video' = None
    /\ source_duration' = None
    /\ random_point' = None
    /\ subclip_end' = None
    /\ video_duration' = None
    /\ title_clip' = None
    /\ title_offset' = None
    /\ text_clips' = None
    /\ current_text_offset' = None
    /\ end_msg' = None
    /\ err' = NoErr
    /\ printed' = <<>>
    /\ attempted' = {}
    /\ written' = {}
    /\ UNCHANGED <<race, args, qna_contents, dir_files, last_used, returned,
                   planned>>

Next ==
    \/ LoadJson
    \/ GenerateAudio
    \/ pick_random_video
    \/ crop_video_to_tiktok_format
    \/ write_title_to_video
    \/ write_multi_text_to_video
    \/ write_tiktok_video_to_file
    \/ HandleException
    \/ Rerun

\* a batch run
Spec == Init /\ [][Next]_vars

\* one video of any content
SpecPlan == InitPlan /\ [][Next]_vars

--------------------------------------------------------------------------
(* Two processes call VideoGenerator.pick_random_video on the same folder. *)
(* A step of a process is one access to the file system together with the *)
(* local computation that follows it.  Each process makes one call, so no *)
(* process reads a marker that two processes have written.                *)

\* the file is empty between open(.., 'w') and the write
EmptyFile == <<>>

\* the marker is being read and rewritten by process p
InWindow(p) == runs[p].pc \in {"open", "write"}

\* two processes start a call, nothing else runs
InitRace ==
    /\ type = "qna"
    /\ max_vid_length = 20
    /\ qna_contents = <<>>
    /\ dir_files \in Catalogs
    /\ last_used \in Markers
    /\ returned = <<>>
    /\ planned = {}
    /\ ProcessStart
    /\ runs = [p \in Runs |-> Run("listdir", {}, <<>>, "None")]
    /\ overlapped = FALSE

RaceFrame ==
    UNCHANGED <<args, qna_contents, dir_files, pc, i, locals, err, printed,
                attempted, written, planned>>

\* os.listdir, the .mp4 filter and the check for an empty list
RunListdir ==
    \E p \in Runs :
        /\ runs[p].pc = "listdir"
        /\ LET video_files == VideoFiles(dir_files, last_used)
           IN  runs' = [runs EXCEPT ![p] =
                          IF video_files = {}
                          THEN Run("raised", {}, <<>>, "ValueError")
                          ELSE Run("read", video_files, <<>>, "None")]
        /\ UNCHANGED <<last_used, returned, overlapped>>
        /\ RaceFrame

\* the try block: open and read the marker, drop the file it names;
\* IOError when there is no marker
RunReadMarker ==
    \E p \in Runs :
        /\ runs[p].pc = "read"
        /\ runs' = [runs EXCEPT ![p] =
                      Run("open",
                          IF last_used = NoFile
                          THEN runs[p].video_files
                          ELSE NotLastUsed(runs[p].video_files, last_used),
                          <<>>, "None")]
        /\ overlapped' = (overlapped \/ \E q \in Runs \ {p} : InWindow(q))
        /\ UNCHANGED <<last_used, returned>>
        /\ RaceFrame

\* choice(video_files), then open(.., 'w') empties the marker
RunOpenMarker ==
    \E p \in Runs :
        /\ runs[p].pc = "open"
        /\ IF runs[p].video_files = {}
           THEN /\ runs' = [runs EXCEPT ![p] =
                              Run("raised", {}, <<>>, "IndexError")]
                /\ last_used' = last_used
           ELSE \E chosen_video \in runs[p].video_files :
                  /\ runs' = [runs EXCEPT ![p] =
                                Run("write", runs[p].video_files,
                                    chosen_video, "None")]
                  /\ last_used' = EmptyFile
        /\ UNCHANGED <<returned, overlapped>>
        /\ RaceFrame

\* txt_file.write(chosen_video), close, return chosen_video
RunWriteMarker ==
    \E p \in Runs :
        /\ runs[p].pc = "write"
        /\ last_used' = MarkerAfter(last_used, runs[p].chosen_video)
        /\ returned' = Append(returned, runs[p].chosen_video)
        /\ runs' = [runs EXCEPT ![p].pc = "done"]
        /\ UNCHANGED overlapped
        /\ RaceFrame

NextRace ==
    \/ RunListdir
    \/ RunReadMarker
    \/ RunOpenMarker
    \/ RunWriteMarker

\* two concurrent calls of pick_random_video
SpecRace == InitRace /\ [][NextRace]_vars

--------------------------------------------------------------------------
(* Properties of one finished timeline.  pc = "write" is the state in which *)
(* write_multi_text_to_video has returned the final video.                  *)

Finalized == pc = "write"

max_length == Ticks(max_vid_length)

gap == time_offset(type)

ClipEnd(clip) == clip.start + clip.duration

AudioEnd(clip) == clip.start + clip.audio

RECURSIVE SumSeq(_)
SumSeq(s) == IF s = <<>> THEN 0 ELSE Head(s) + SumSeq(Tail(s))

\* title + lead-in + every text of the input with its gap + closing minimum
NaturalContent ==
    audio_info.title + title_buffer
    + SumSeq([k \in 1..Len(audio_info.texts) |-> audio_info.texts[k] + gap])
    + end_msg_min

\* the same over the admitted texts only
AdmittedContent ==
    audio_info.title + title_buffer
    + SumSeq([k \in 1..Len(text_clips) |-> text_clips[k].duration + gap])
    + end_msg_min

ClosingDuration == EndMsgOnScreen(end_msg.start, video_duration)

\* C1: once a text fails the budget check no later text is admitted: the
\* admitted texts are a prefix of the input list.
C1_AdmittedIsPrefix ==
    Finalized => \A k \in 1..Len(text_clips) : text_clips[k].index = k

\* C2: when the loop body fails on post k, every later post of the batch is
\* still attempted: a finished run has attempted every post after any post
\* it attempted.
C2_BatchContinues ==
    pc = "done" =>
        \A k \in attempted :
            \A j \in k..(Len(qna_contents) - 1) : j \in attempted

\* C3: with exactly one .mp4 in the folder, pick_random_video returns it on
\* every call: no call raises.
C3_SingleFileAlwaysReturned ==
    Cardinality(VideoFiles(dir_files, last_used)) = 1 =>
        err.at # "pick_random_video"

\* C4: with two or more .mp4 files in the folder, two consecutive results of
\* pick_random_video are never the same file.
C4_NoImmediateRepeat ==
    (Cardinality(VideoFiles(dir_files, last_used)) >= 2 /\ Len(returned) = 2)
        => returned[1] # returned[2]

C6_TotalWithinBudget == Finalized => video_duration <= max_length

C6_Witness == Finalized /\ audio_info.title + title_buffer > max_length

\* C7, as stated: the final video lasts exactly max_length whenever the
\* natural content of the whole input reaches max_length, and is shorter
\* only when it does not.
C7_FillsWhenNaturalContentDoes ==
    Finalized =>
        /\ NaturalContent >= max_length => video_duration = max_length
        /\ video_duration < max_length => NaturalContent < max_length

\* C7, amended: the final video lasts min(max_length, title + lead-in +
\* every admitted text with its gap + 3 s): rejected texts do not count.
C7_FillsWhenAdmittedContentDoes ==
    Finalized =>
        /\ video_duration = Min(max_length, AdmittedContent)
        /\ AdmittedContent >= max_length => video_duration = max_length
        /\ video_duration < max_length => AdmittedContent < max_length

C7_Witness ==
    /\ Finalized
    /\ Len(text_clips) >= 1
    /\ Len(text_clips) < Len(audio_info.texts)
    /\ NaturalContent >= max_length
    /\ video_duration < max_length

\* C8, as stated: neither the title nor any admitted text is cut off: its
\* narration ends within the final video.
C8_NothingCutOff ==
    Finalized =>
        /\ AudioEnd(title_clip) <= video_duration
        /\ \A k \in 1..Len(text_clips) :
              AudioEnd(text_clips[k]) <= video_duration

\* C8, amended: no admitted text is cut off, and the title is not cut off
\* when its narration is no longer than max_length.
C8_NoAdmittedTextCutOff ==
    Finalized =>
        /\ \A k \in 1..Len(text_clips) :
              AudioEnd(text_clips[k]) <= video_duration
        /\ audio_info.title <= max_length =>
              AudioEnd(title_clip) <= video_duration

C8_Witness ==
    /\ Finalized
    /\ Len(text_clips) >= 1
    /\ AudioEnd(text_clips[Len(text_clips)]) = video_duration

\* C9: every admitted text satisfies start_offset + duration <= max_length.
C9_AdmittedFitBudget ==
    Finalized =>
        \A k \in 1..Len(text_clips) : ClipEnd(text_clips[k]) <= max_length

C9_Witness ==
    /\ Finalized
    /\ Len(text_clips) >= 1
    /\ Len(text_clips) < Len(audio_info.texts)
    /\ \E k \in 1..Len(text_clips) : ClipEnd(text_clips[k]) = max_length

\* C10: the title overlay starts at 0 and lasts title + lead-in, the first
\* admitted text starts where it ends, each next admitted text starts one
\* gap after the one before it ends, and start offsets strictly increase.
C10_GapSpacedChain ==
    Finalized =>
        /\ title_clip.start = 0
        /\ title_clip.duration = audio_info.title + title_buffer
        /\ Len(text_clips) >= 1 => text_clips[1].start = ClipEnd(title_clip)
        /\ \A k \in 1..(Len(text_clips) - 1) :
              /\ ClipEnd(text_clips[k]) + gap = text_clips[k + 1].start
              /\ text_clips[k].start < text_clips[k + 1].start

C10_Witness ==
    /\ Finalized
    /\ Len(text_clips) >= 2
    /\ text_clips[1].index > 1

\* the last admitted text
LastClip == text_clips[Len(text_clips)]

Example1 ==
    /\ type = "qna"
    /\ max_vid_length = 30
    /\ audio_info = [title |-> 50, texts |-> <<100, 100, 100>>]

Example2 ==
    /\ type = "qna"
    /\ max_vid_length = 20
    /\ audio_info = [title |-> 30, texts |-> <<40, 60, 500>>]

\* C13: title 5 s, texts 10, 10, 10 s, 30 s, gap .5: texts 1 and 2 at
\* [5.8, 15.8) and [16.3, 26.3), text 3 rejected, closing card [26.8, 29.8);
\* title 3 s, comments 4, 6, 50 s, 20 s, gap .5: comments 1 and 2 only, and
\* the closing card lasts min(20 - closing_start, 3) seconds.
C13_WorkedExamples ==
    /\ (Finalized /\ Example1) =>
          /\ title_clip.start = 0 /\ ClipEnd(title_clip) = 58
          /\ [k \in 1..Len(text_clips) |->
                <<text_clips[k].index, text_clips[k].start,
                  ClipEnd(text_clips[k])>>]
             = <<(<<1, 58, 158>>), (<<2, 163, 263>>)>>
          /\ end_msg.start = 268
          /\ end_msg.start + ClosingDuration = 298
          /\ video_duration = 298
    /\ (Finalized /\ Example2) =>
          /\ [k \in 1..Len(text_clips) |-> text_clips[k].index] = <<1, 2>>
          /\ ClosingDuration = Min(200 - end_msg.start, 30)
          /\ ClosingDuration = 30

C13_Witness == Finalized /\ Example1

\* C14: if max_length <= title + lead-in, no text of positive duration is
\* admitted and the closing card starts at title + lead-in.
C14_NoRoomAfterTitle ==
    (Finalized /\ max_length <= audio_info.title + title_buffer) =>
        /\ text_clips = <<>>
        /\ end_msg.start = audio_info.title + title_buffer

C14_Witness ==
    /\ Finalized
    /\ max_length = audio_info.title + title_buffer
    /\ Len(audio_info.texts) >= 1

--------------------------------------------------------------------------
(* Properties of the crop window.  D is source_duration, T max_vid_length. *)

\* crop_video_to_tiktok_format has returned a subclip
Cropped == pc \in {"title", "multi", "write"}

CropFailed == pc = "except" /\ err.at = "crop_video_to_tiktok_format"

\* C15: the crop succeeds whenever T < D and fails exactly when T >= D.
C15_CropFailsIffSourceTooShort ==
    /\ CropFailed => Ticks(max_vid_length) >= source_duration
    /\ Cropped => Ticks(max_vid_length) < source_duration

\* C16: a returned window lies inside the source: 0 <= start,
\* end = start + T and start + T <= D.
C16_WindowInsideSource ==
    Cropped =>
        /\ 0 <= random_point
        /\ subclip_end = random_point + max_vid_length
        /\ Ticks(random_point) + Ticks(max_vid_length) <= source_duration
        /\ video_duration >= 0

C16_Witness ==
    /\ pc = "title"
    /\ random_point > 0
    /\ IntSeconds(source_duration) - subclip_end < max_vid_length

\* the whole seconds s with 0 <= s <= D - T
WholeSecondStarts(duration, subclip_length) ==
    {s \in 0..IntSeconds(duration) :
        Ticks(s) <= duration - Ticks(subclip_length)}

\* C17: the starts the crop can return are exactly the whole seconds in
\* [0, D - T], for every source the crop may be given.
C17_EveryWholeSecondIsAStart ==
    pc = "crop" =>
        \A duration \in SourceDurations :
            RandomPoints(duration, max_vid_length)
                = WholeSecondStarts(duration, max_vid_length)

--------------------------------------------------------------------------
(* Properties of the background selection and of repeated planning *)

\* no entry of the background folder is an .mp4 file
NoEligibleFile == \A f \in dir_files : ~EndsWith(f, ".mp4")

\* C18: on a folder without any .mp4 file pick_random_video raises and
\* leaves the marker file as it was, absent or with its content.
C18_NoVideoRaisesAndKeepsMarker ==
    [][(pc = "pick" /\ NoEligibleFile) =>
          /\ pc' = "except"
          /\ err' = [type |-> "ValueError", at |-> "pick_random_video"]
          /\ last_used' = last_used]_vars

C18_Witness ==
    /\ pc = "except"
    /\ err = [type |-> "ValueError", at |-> "pick_random_video"]
    /\ dir_files # {}
    /\ last_used # NoFile

\* C19: after every successful pick_random_video the marker file holds
\* exactly the name the call returned.
C19_MarkerIsLastReturned ==
    returned # <<>> => last_used = returned[Len(returned)]

C19_Witness ==
    /\ Len(returned) = 2
    /\ returned[1] # returned[2]
    /\ last_used = returned[2]

\* the timeline of the current video
CurrentPlan ==
    Plan(text_clips, end_msg.start, end_msg.duration, video_duration)

AdmittedBefore(k) == SelectSeq(text_clips, LAMBDA c : c.index < k)

\* the cursor at the turn of input text k: the end of the title overlay,
\* advanced by duration + gap for every text admitted before k
CursorAt(k) ==
    ClipEnd(title_clip)
    + SumSeq([j \in 1..Len(AdmittedBefore(k)) |->
                AdmittedBefore(k)[j].duration + gap])

PathIndex(path) == path[1][5]

\* the posts of this run whose success was printed
Reported ==
    {printed[k][2] - 1 :
        k \in {n \in 1..Len(printed) :
                  printed[n][1] = "Successfully Generated"}}

\* an exception raised after the audio of post i was generated
FailedInVideoStep ==
    /\ pc = "except"
    /\ err.at \in {"pick_random_video", "crop_video_to_tiktok_format",
                   "write_title_to_video", "write_multi_text_to_video",
                   "write_tiktok_video_to_file"}

\* C22: the posts of a batch are processed one after another, in order; a
\* post has its finalized video, and its success is printed, only once all
\* its steps are done and the loop has moved past it; the post in progress
\* and a post that failed have none.
C22_VideoOnlyAfterAllSteps ==
    /\ attempted \subseteq 0..i
    /\ \A k \in 0..(i - 1) : k \in attempted
    /\ {PathIndex(path) : path \in written} = 0..(i - 1)
    /\ Reported = 0..(i - 1)
    /\ \A k \in 1..i : printed[k] = <<"Successfully Generated", k>>
    /\ pc \in {"audio", "pick", "crop", "title", "multi", "write", "except"}
          => \A path \in written : PathIndex(path) # i

C22_Witness ==
    /\ FailedInVideoStep
    /\ i = 1
    /\ written # {}
    /\ \A path \in written : PathIndex(path) # i

FailedAfterPick ==
    /\ pc \in {"except", "done"}
    /\ err.at \in {"crop_video_to_tiktok_format", "write_title_to_video",
                   "write_multi_text_to_video", "write_tiktok_video_to_file"}

\* C25: when the selection of a post succeeds and a later step fails, the
\* marker still names the file selected for that post; the marker changes
\* only in the selection step of a post, which each post takes once, and
\* then to the file selected.
C25_MarkerNotRolledBack ==
    /\ [](FailedAfterPick =>
             /\ last_used = background_video
             /\ last_used = returned[Len(returned)])
    /\ [][last_used' # last_used =>
             /\ pc = "pick" /\ pc' = "crop"
             /\ i' = i
             /\ last_used' = background_video']_vars

C25_Witness ==
    /\ pc = "except"
    /\ err.at = "crop_video_to_tiktok_format"
    /\ Len(returned) = 2
    /\ returned[1] # returned[2]
    /\ last_used = background_video

\* both processes returned a file
BothReturned == \A p \in Runs : runs[p].pc = "done"

\* no name of the folder begins or ends with white space
PlainNames == \A f \in dir_files : Strip(f) = f

\* C23: over a folder of two or more videos, two calls return the same
\* file one after the other only if the read-then-write of one overlapped
\* that of the other.
C23_RepeatOnlyWhenOverlapping ==
    (/\ BothReturned
     /\ Cardinality(VideoFiles(dir_files, last_used)) >= 2
     /\ returned[1] = returned[2])
        => overlapped

\* the repetition of C23 that is a race: overlapping calls over names
\* without white space return the same file
C23_RaceRepeats ==
    /\ BothReturned
    /\ PlainNames
    /\ Cardinality(VideoFiles(dir_files, last_used)) >= 2
    /\ overlapped
    /\ returned[1] = returned[2]

\* without white space in the names, calls that do not overlap never
\* return the same file one after the other
C23_PlainNamesRepeatOnlyWhenOverlapping ==
    PlainNames => C23_RepeatOnlyWhenOverlapping

====
